---- MODULE Spec2Model ----
(***************************************************************************)
(* Model of src/index.ts: the report-fetching script.  The module load     *)
(* checks the API token, main() checks REPORT_UUID and calls                *)
(* fetchReportData, which awaits page 1, fans out pages 2..totalPages,      *)
(* joins them with Promise.all and concatenates the items.                  *)
(***************************************************************************)
EXTENDS Integers, Sequences, FiniteSets, TLC

\* ---------------------------------------------------------------- bounds
MaxTotal == 3          \* largest totalItems the server reports
MaxPageSize == 2       \* pageSize argument ranges over 1..MaxPageSize
MaxItems == 2          \* longest item array the server puts in one payload

Pages == 1..MaxTotal   \* page numbers that can ever be requested (pageSize >= 1)

\* ------------------------------------------------------- JavaScript values
Undefined == [t |-> "undefined"]
Null == [t |-> "null"]
Num(n) == [t |-> "number", v |-> n]
Arr(s) == [t |-> "array", v |-> s]
Str(s) == [t |-> "string", v |-> s]

\* a test against undefined / null only, in place of ToBoolean
Truthy_nullish(x) == x.t \notin {"undefined", "null"}

\* ToBoolean as used by `!x` and `x || y`
Truthy(x) ==
  CASE x.t = "undefined" -> FALSE
    [] x.t = "null" -> FALSE
    [] x.t = "number" -> x.v # 0
    [] x.t = "string" -> x.v # ""
    [] x.t = "array" -> TRUE

\* x || d
OrElse(x, d) == IF Truthy(x) THEN x ELSE d

\* Math.floor in place of Math.ceil
Ceil_floor(a, b) == a \div b

\* Math.ceil(a / b) for b > 0
Ceil(a, b) == -((-a) \div b)

\* ------------------------------------------------------ server responses
\* The report records are opaque to the script.  The i-th record the server
\* puts in its reply to page p is written <<p, i>>, so that every record of
\* a run is distinct and carries where it came from.
ServerItems(p, n) == [i \in 1..n |-> <<p, i>>]

ItemsField(p) == {Undefined, Null} \cup {Arr(ServerItems(p, n)) : n \in 0..MaxItems}
TotalField == {Undefined, Null} \cup {Num(n) : n \in 0..MaxTotal}

\* what client.query settles with: an error (network / GraphQL), a result
\* whose data.reportData is null, or a result with a reportData object
ErrorResponse == [kind |-> "error", items |-> Undefined, totalItems |-> Undefined]
NullData == [kind |-> "nullData", items |-> Undefined, totalItems |-> Undefined]
DataResponses(p) == [kind : {"data"}, items : ItemsField(p), totalItems : TotalField]
Responses(p) == {ErrorResponse, NullData} \cup DataResponses(p)
NoResponse == [kind |-> "none", items |-> Undefined, totalItems |-> Undefined]

\* a page function that throws on a missing field instead of defaulting it
fetchReportDataPage_strict(r) ==
  IF r.kind = "data" /\ r.items.t = "array" /\ r.totalItems.t = "number"
  THEN [state |-> "resolved", items |-> r.items.v, totalItems |-> r.totalItems.v]
  ELSE [state |-> "rejected", items |-> <<>>, totalItems |-> 0]

\* fetchReportDataPage once client.query has settled with r: the promise it
\* returns is fulfilled with {items, totalItems} or rejected
fetchReportDataPage(r) ==
  IF r.kind = "data"
  THEN [state |-> "resolved",
        items |-> OrElse(r.items, Arr(<<>>)).v,
        totalItems |-> OrElse(r.totalItems, Num(0)).v]
  ELSE [state |-> "rejected", items |-> <<>>, totalItems |-> 0]

\* a promise of fetchReportDataPage that is not created yet / not settled yet
Idle == [state |-> "idle", items |-> <<>>, totalItems |-> 0]
InFlight == [state |-> "pending", items |-> <<>>, totalItems |-> 0]

\* ------------------------------------------------------------- the state
VARIABLES
  env,         \* process.env: apiUrl, apiToken, reportUuid
  pageSize,    \* pageSize argument of fetchReportData
  pc,          \* where the script is
  requests,    \* page numbers passed to client.query, in issue order
  page,        \* per page: the promise returned by fetchReportDataPage
  lastReply,   \* the page and the response of the latest client.query to settle
  settled,     \* pages in the order their promises settled
  joinAll,     \* the Promise.all promise
  totalItems,  \* local of fetchReportData
  totalPages,  \* local of fetchReportData
  allItems,    \* local of fetchReportData
  outcome,     \* the promise returned by fetchReportData
  stdout,
  stderr,
  exitCode

vars == <<env, pageSize, pc, requests, page, lastReply, settled, joinAll,
          totalItems, totalPages, allItems, outcome, stdout, stderr, exitCode>>

NoExit == -1
PendingOutcome == [state |-> "pending", items |-> <<>>, totalItems |-> 0]

Init ==
  /\ env \in [apiUrl : {Undefined, Str("url")},
              apiToken : {Undefined, Str(""), Str("token")},
              reportUuid : {Undefined, Str(""), Str("uuid")}]
  /\ pageSize \in 1..MaxPageSize
  /\ pc = "load"
  /\ requests = <<>>
  /\ page = [p \in Pages |-> Idle]
  /\ lastReply = [page |-> 0, response |-> NoResponse]
  /\ settled = <<>>
  /\ joinAll = [state |-> "idle", by |-> 0]
  /\ totalItems = 0
  /\ totalPages = 0
  /\ allItems = <<>>
  /\ outcome = PendingOutcome
  /\ stdout = <<>>
  /\ stderr = <<>>
  /\ exitCode = NoExit

\* process.exit(code)
Exit(code) ==
  /\ exitCode' = code
  /\ pc' = "exited"

\* module top level: the API_TOKEN check
LoadModule ==
  /\ pc = "load"
  /\ IF ~Truthy(env.apiToken)
     THEN /\ stderr' = stderr \o <<"token required", "create .env">>
          /\ Exit(1)
     ELSE /\ pc' = "main"
          /\ UNCHANGED <<stderr, exitCode>>
  /\ UNCHANGED <<env, pageSize, requests, page, lastReply, settled, joinAll,
                 totalItems, totalPages, allItems, outcome, stdout>>

\* a loop `page < totalPages`
PagePromises_offByOne(tp) == [i \in 1..(tp - 2) |-> i + 1]

\* a loop that creates the promise of page 2 and stops (the next page is
\* requested only after the previous one)
PagePromises_firstOnly(tp) == [i \in 1..(IF tp > 1 THEN 1 ELSE 0) |-> i + 1]

\* the synchronous for loop of fetchReportData: pagePromises[i] is the
\* promise of page i + 1
PagePromises(tp) == [i \in 1..(tp - 1) |-> i + 1]

\* main() up to its await: createApolloClient, the REPORT_UUID check and the
\* call of fetchReportData, which runs up to client.query for page 1
MainStart ==
  /\ pc = "main"
  /\ IF ~Truthy(OrElse(env.reportUuid, Str("")))
     THEN /\ stdout' = stdout \o <<"Fetching report data...">>
          /\ stderr' = stderr \o <<"uuid required">>
          /\ Exit(1)
          /\ UNCHANGED <<requests, page>>
     ELSE /\ stdout' = stdout \o <<"Fetching report data...", "Fetching for UUID">>
          /\ requests' = Append(requests, 1)
          /\ page' = [page EXCEPT ![1] = InFlight]
          /\ pc' = "awaitFirst"
          /\ UNCHANGED <<stderr, exitCode>>
  /\ UNCHANGED <<env, pageSize, lastReply, settled, joinAll,
                 totalItems, totalPages, allItems, outcome>>

\* Promise.allSettled in place of Promise.all: never rejects
PromiseAll_allSettled(j, pg, pp, p) ==
  IF j.state # "pending" THEN j
  ELSE IF \A i \in 1..Len(pp) : pg[pp[i]].state \in {"resolved", "rejected"}
       THEN [state |-> "fulfilled", by |-> 0]
       ELSE j

\* a join that rejects only once every promise has settled
PromiseAll_waitsForAll(j, pg, pp, p) ==
  IF j.state # "pending" THEN j
  ELSE IF \E i \in 1..Len(pp) : pg[pp[i]].state = "pending" THEN j
  ELSE IF \E i \in 1..Len(pp) : pg[pp[i]].state = "rejected"
       THEN [state |-> "rejected", by |-> p]
       ELSE [state |-> "fulfilled", by |-> 0]

\* Promise.all over pagePromises after the promise of page p settled
PromiseAll(j, pg, pp, p) ==
  IF j.state # "pending" THEN j
  ELSE IF pg[p].state = "rejected" THEN [state |-> "rejected", by |-> p]
  ELSE IF \A i \in 1..Len(pp) : pg[pp[i]].state = "resolved"
       THEN [state |-> "fulfilled", by |-> 0]
       ELSE j

\* client.query for page p settles with r and fetchReportDataPage resumes
Reply(p, r) ==
  /\ pc # "exited"
  /\ page[p].state = "pending"
  /\ lastReply' = [page |-> p, response |-> r]
  /\ page' = [page EXCEPT ![p] = fetchReportDataPage(r)]
  /\ settled' = Append(settled, p)
  /\ joinAll' = IF p = 1 THEN joinAll
                ELSE PromiseAll(joinAll, page', PagePromises(totalPages), p)
  /\ UNCHANGED <<env, pageSize, pc, requests, totalItems, totalPages, allItems,
                 outcome, stdout, stderr, exitCode>>

Rejected == [state |-> "rejected", items |-> <<>>, totalItems |-> 0]
Fulfilled(items, total) == [state |-> "fulfilled", items |-> items, totalItems |-> total]

\* `const allItems = []`: the first page's items forgotten
FirstItems_empty(firstPage) == <<>>

\* const allItems = [...firstPage.items]
FirstItems(firstPage) == firstPage.items

\* fetchReportData resumes after `await fetchReportDataPage(... page 1 ...)`
FirstPageResume ==
  /\ pc = "awaitFirst"
  /\ page[1].state # "pending"
  /\ IF page[1].state = "rejected"
     THEN /\ outcome' = Rejected
          /\ pc' = "mainResume"
          /\ UNCHANGED <<totalItems, totalPages, allItems, requests, page, joinAll>>
     ELSE LET firstPage == page[1]
              tp == Ceil(firstPage.totalItems, pageSize)
              pp == PagePromises(tp)
          IN /\ totalItems' = firstPage.totalItems
             /\ allItems' = FirstItems(firstPage)
             /\ totalPages' = tp
             /\ IF tp > 1
                THEN /\ requests' = requests \o pp
                     /\ page' = [q \in Pages |->
                                   IF \E i \in 1..Len(pp) : pp[i] = q
                                   THEN InFlight ELSE page[q]]
                     /\ joinAll' = [state |-> "pending", by |-> 0]
                     /\ pc' = "awaitAll"
                     /\ UNCHANGED outcome
                ELSE /\ outcome' = Fulfilled(FirstItems(firstPage), firstPage.totalItems)
                     /\ pc' = "mainResume"
                     /\ UNCHANGED <<requests, page, joinAll>>
  /\ UNCHANGED <<env, pageSize, lastReply, settled, stdout, stderr, exitCode>>

RECURSIVE Concat(_, _)
Concat(f, n) == IF n = 0 THEN <<>> ELSE Concat(f, n - 1) \o f[n]

NotFirst(p) == p # 1

\* the page results taken in the order the promises settled
RemainingPages_arrival(pp, order) ==
  [i \in 1..Len(pp) |-> page[SelectSeq(order, NotFirst)[i]]]

\* remainingPages: the value of Promise.all, positional in pagePromises
RemainingPages(pp, order) == [i \in 1..Len(pp) |-> page[pp[i]]]

\* fetchReportData resumes after `await Promise.all(pagePromises)`
JoinResume ==
  /\ pc = "awaitAll"
  /\ joinAll.state # "pending"
  /\ IF joinAll.state = "fulfilled"
     THEN LET rp == RemainingPages(PagePromises(totalPages), settled)
              merged == allItems \o Concat([i \in 1..Len(rp) |-> rp[i].items], Len(rp))
          IN /\ allItems' = merged
             /\ outcome' = Fulfilled(merged, totalItems)
     ELSE /\ outcome' = Rejected
          /\ UNCHANGED allItems
  /\ pc' = "mainResume"
  /\ UNCHANGED <<env, pageSize, requests, page, lastReply, settled, joinAll,
                 totalItems, totalPages, stdout, stderr, exitCode>>

\* main() resumes after `await fetchReportData(...)`: print, or catch and exit(1)
MainResume ==
  /\ pc = "mainResume"
  /\ IF outcome.state = "fulfilled"
     THEN /\ stdout' = stdout \o <<"=== Report Data ===", "items", "Total items",
                                   "Items returned", "=== Items ===">>
          /\ Exit(0)
          /\ UNCHANGED stderr
     ELSE /\ stderr' = stderr \o <<"Fatal error">>
          /\ Exit(1)
          /\ UNCHANGED stdout
  /\ UNCHANGED <<env, pageSize, requests, page, lastReply, settled, joinAll,
                 totalItems, totalPages, allItems, outcome>>

Next ==
  \/ LoadModule
  \/ MainStart
  \/ \E p \in Pages : \E r \in Responses(p) : Reply(p, r)
  \/ FirstPageResume
  \/ JoinResume
  \/ MainResume

Spec == Init /\ [][Next]_vars

\* ------------------------------------------------------------ properties
Max(a, b) == IF a >= b THEN a ELSE b
Min(a, b) == IF a <= b THEN a ELSE b

Returned == outcome.state = "fulfilled"
SomePageRejected == \E p \in Pages : page[p].state = "rejected"
SettledState(p) == page[p].state \in {"resolved", "rejected"}

\* page q is one of the pages the first page's totalItems calls for
Needed(q) == q = 1 \/ (q - 1) * pageSize < page[1].totalItems

\* C1: a fetchReportData call that returns has issued n page requests, n the
\* least number >= 1 with n * pageSize >= totalItems of page 1 (that is
\* max(1, ceil(totalItems / pageSize))), and exactly one of them is for page 1.
C1_RequestCount ==
  Returned =>
    LET n == Len(requests)
        T == page[1].totalItems
    IN /\ n >= 1
       /\ n * pageSize >= T
       /\ (n = 1 \/ (n - 1) * pageSize < T)
       /\ Cardinality({i \in 1..n : requests[i] = 1}) = 1

C1_Witness ==
  /\ Returned
  /\ Len(requests) = 3
  /\ pageSize = 1

\* C2: whatever order the promises of pages 2..N settled in, the returned
\* items are the items of page 1, then page 2, ..., then page N, each page's
\* items in the order the server sent them.
C2_PageOrder ==
  Returned =>
    /\ outcome.items = Concat([p \in Pages |-> page[p].items], MaxTotal)
    /\ \A i \in 1..Len(outcome.items) : \A j \in 1..Len(outcome.items) :
         i < j => \/ outcome.items[i][1] < outcome.items[j][1]
                  \/ /\ outcome.items[i][1] = outcome.items[j][1]
                     /\ outcome.items[i][2] < outcome.items[j][2]

C2_Witness ==
  /\ Returned
  /\ settled = <<1, 3, 2>>
  /\ Len(page[2].items) = 2
  /\ Len(page[3].items) = 1

\* C3: once any page request has failed, fetchReportData never returns an
\* item list, nothing is printed as the report, and the process can only
\* exit with code 1.
C3_AllOrNothing ==
  SomePageRejected =>
    /\ ~Returned
    /\ outcome.items = <<>>
    /\ \A i \in 1..Len(stdout) : stdout[i] # "items"
    /\ (pc = "exited" => exitCode = 1)

C3_Witness ==
  /\ pc = "exited"
  /\ page[1].state = "resolved" /\ Len(page[1].items) > 0
  /\ page[2].state = "resolved" /\ Len(page[2].items) > 0
  /\ page[3].state = "rejected"
  /\ exitCode = 1

ConfigMissing ==
  \/ env.apiToken = Undefined
  \/ env.reportUuid = Undefined
  \/ env.reportUuid = Str("")

\* C4: with COSTLOCKER_API_TOKEN missing, or REPORT_UUID missing or empty,
\* no request is ever issued and the process exits with code 1.
C4_NoRequestWithoutConfig ==
  ConfigMissing =>
    /\ requests = <<>>
    /\ pc \in {"load", "main", "exited"}
    /\ (pc = "exited" => exitCode = 1 /\ stderr # <<>>)

C4_Witness ==
  /\ env.apiToken = Str("token")
  /\ env.reportUuid = Str("")
  /\ pc = "exited"
  /\ exitCode = 1
  /\ requests = <<>>

\* C5: with COSTLOCKER_API_URL missing (token and REPORT_UUID set) no request
\* is ever issued and the process exits with code 1 and an error message.
C5_UrlRequired ==
  (env.apiUrl = Undefined /\ env.apiToken = Str("token") /\ env.reportUuid = Str("uuid")) =>
    /\ requests = <<>>
    /\ (pc = "exited" => exitCode = 1 /\ stderr # <<>>)

\* C6: a successful response resolves the page promise with items = [] when
\* the payload's items is undefined or null and the payload's array
\* otherwise, and with totalItems = 0 when the payload's totalItems is
\* undefined or null and the payload's number otherwise.
C6_Normalised ==
  (lastReply.page # 0 /\ lastReply.response.kind = "data") =>
    LET r == lastReply.response
        v == page[lastReply.page]
    IN /\ v.state = "resolved"
       /\ (r.items.t \in {"undefined", "null"} => v.items = <<>>)
       /\ (r.items.t = "array" => v.items = r.items.v)
       /\ (r.totalItems.t \in {"undefined", "null"} => v.totalItems = 0)
       /\ (r.totalItems.t = "number" => v.totalItems = r.totalItems.v)
       /\ v.totalItems \in Nat
       /\ Len(v.items) \in Nat

C6_Witness ==
  /\ lastReply.page = 2
  /\ lastReply.response.kind = "data"
  /\ lastReply.response.items = Undefined
  /\ lastReply.response.totalItems = Null
  /\ page[2] = [state |-> "resolved", items |-> <<>>, totalItems |-> 0]

\* C7 as claimed: when page 1 reports totalItems = 0, exactly one request is
\* issued and the returned item sequence is empty.
C7_EmptyOnZeroTotal ==
  (Returned /\ page[1].totalItems = 0) =>
    /\ requests = <<1>>
    /\ outcome.items = <<>>

\* C7 as amended: when page 1 reports totalItems = 0 (a missing totalItems
\* included), exactly one request is issued and the call returns the items of
\* page 1 as they came with totalItems 0: an empty sequence when page 1
\* carried no items.
C7_FirstPageOnZeroTotal ==
  (Returned /\ page[1].totalItems = 0) =>
    /\ requests = <<1>>
    /\ outcome.items = page[1].items
    /\ outcome.totalItems = 0

C7_Witness ==
  /\ Returned
  /\ lastReply.page = 1
  /\ lastReply.response.totalItems = Undefined
  /\ lastReply.response.items = Arr(ServerItems(1, 2))
  /\ requests = <<1>>
  /\ outcome.items = ServerItems(1, 2)

\* the server is consistent: every page reports the total of page 1 and
\* page p carries min(pageSize, max(0, totalItems - (p - 1) * pageSize)) items
Consistent ==
  \A p \in Pages :
    page[p].state = "resolved" =>
      /\ page[p].totalItems = page[1].totalItems
      /\ Len(page[p].items) =
           Min(pageSize, Max(0, page[1].totalItems - (p - 1) * pageSize))

\* C8: against a consistent server a returned result has
\* items.length = totalItems.
C8_LengthIsTotal ==
  (Returned /\ Consistent) => Len(outcome.items) = outcome.totalItems

C8_Witness ==
  /\ Returned
  /\ Consistent
  /\ pageSize = 2
  /\ outcome.totalItems = 3
  /\ Len(outcome.items) = 3

\* C9: the first request is for page 1; a request for a page >= 2 exists
\* only after page 1 has resolved; and once any page >= 2 has settled, every
\* page the total calls for has been requested.
C9_FanOut ==
  /\ (requests # <<>> => requests[1] = 1)
  /\ \A p \in Pages \ {1} :
       /\ (page[p].state # "idle" => page[1].state = "resolved")
       /\ (SettledState(p) => \A q \in Pages : Needed(q) => page[q].state # "idle")

\* all remaining requests in flight together
C9_Witness ==
  /\ page[1].state = "resolved"
  /\ page[1].totalItems = 3
  /\ pageSize = 1
  /\ page[2].state = "pending"
  /\ page[3].state = "pending"
  /\ Len(requests) = 3

\* C10: a rejected page >= 2 has rejected the join at once, whatever the
\* other requests are doing; after that the join keeps its rejection, the
\* call never returns and holds no items, while the other requests go on
\* settling.
C10_FirstRejectionWins ==
  [][ /\ \A p \in Pages \ {1} :
           page'[p].state = "rejected" => joinAll'.state = "rejected"
      /\ (joinAll.state = "rejected" =>
            /\ joinAll' = joinAll
            /\ outcome'.state # "fulfilled"
            /\ outcome'.items = <<>>)
      /\ (outcome.state = "rejected" => outcome' = outcome) ]_vars

\* page 2 rejected first, page 3 resolved with items afterwards, the call
\* already rejected
C10_Witness ==
  /\ settled = <<1, 2, 3>>
  /\ page[2].state = "rejected"
  /\ page[3].state = "resolved"
  /\ Len(page[3].items) > 0
  /\ joinAll = [state |-> "rejected", by |-> 2]
  /\ outcome = Rejected

====
